---- MODULE Spec2Model ----
(***************************************************************************)
(* Mean-variance portfolio optimisation: src/src/Load_Data.py (statistics, *)
(* performance model, the three SLSQP problems, the frontier sweep, the    *)
(* chart) and src/app.py (ticker parsing, input validation, the            *)
(* run_clicked handler).                                                   *)
(*                                                                         *)
(* Number representation (exact; the one place where floating-point        *)
(* rounding decides the outcome, a cancelling w'Cw, is a choice between    *)
(* the outcomes rounding can produce, see port_performance):               *)
(*   - daily returns, means and covariances are integers in units of       *)
(*     1e-4 (basis points) resp. 1e-8;                                     *)
(*   - a weight vector x is a function 1..N -> Int on the lattice of       *)
(*     resolution 1/WeightSteps: the weight of asset i is                  *)
(*     x[i]/WeightSteps; bounds are in the same lattice units;             *)
(*   - an annualised return is an integer r meaning r/WeightSteps bp;      *)
(*   - an annualised volatility is a record [kind |-> "num", sq |-> q]     *)
(*     meaning sqrt(q)/WeightSteps bp (the square root is never taken, it  *)
(*     is carried symbolically);                                           *)
(*   - a frontier target is an integer t meaning                           *)
(*     t/(WeightSteps*(N_FRONTIER-1)) bp;                                  *)
(*   - a Sharpe value is Inf, NaN or                                       *)
(*     [kind |-> "num", num |-> p, sq |-> q], meaning p/sqrt(q).           *)
(***************************************************************************)
EXTENDS Integers, Sequences, FiniteSets, TLC

\* Load_Data.py:7
TRADING_DAYS == 252

\* Load_Data.py:131, the sample count of np.linspace
N_FRONTIER == 20

\* np.isclose(port_std, 0) uses atol = 1e-8 (rtol contributes nothing against 0);
\* 1e-8 is 1/AtolInv of the 1e-4 unit volatilities are measured in.
AtolInv == 10000

\* Lattice resolution of weights. It contains the equal-weight initial guess of
\* two assets (1/2 each) and every np.linspace interpolation point between two
\* portfolios whose weights are 0, 1/2 or 1. The return histories in MarketData
\* are such that the exact solution of every problem posed to the solver is one
\* of these lattice points (see MarketData).
WeightSteps == 2 * (N_FRONTIER - 1)

\* Values that are not finite numbers are records told apart by `kind`; a finite
\* number carries kind "num".
Inf == [kind |-> "inf"]
NaN == [kind |-> "nan"]
None == [kind |-> "None"]

Abs(v) == IF v < 0 THEN -v ELSE v

RECURSIVE SumTo(_, _)
\* np.sum over the first n entries of a vector
SumTo(f, n) == IF n = 0 THEN 0 ELSE f[n] + SumTo(f, n - 1)

\* np.dot(weights.T, np.dot(covar, weights)) over n assets
QuadForm(weights, covar, n) ==
    SumTo([i \in 1..n |-> weights[i] * SumTo([j \in 1..n |-> covar[i][j] * weights[j]], n)], n)

\* The exact value of w'Cw is 0 although some term of the sum is not: the terms
\* cancel. In floating point the sum then comes out as a rounding error that is
\* zero, slightly above zero or slightly below zero, depending on the low-order
\* bits of the operands and on the order of evaluation.
Cancels(weights, covar, n) ==
    /\ QuadForm(weights, covar, n) = 0
    /\ \E i, j \in 1..n : weights[i] * covar[i][j] * weights[j] # 0

\* Load_Data.py:31-35. mean_return and covar are sequences over the assets.
\* rounds_negative tells whether a cancelling w'Cw comes out below zero: np.sqrt
\* of it is then nan. A cancelling w'Cw that comes out at or above zero is a
\* rounding error far inside the tolerance of np.isclose and is carried as 0.
port_performance(weights, mean_return, covar, rounds_negative) ==
    LET n == Len(mean_return)
    IN  [port_return |-> SumTo([i \in 1..n |-> mean_return[i] * weights[i]], n) * TRADING_DAYS,
         port_std    |-> IF rounds_negative /\ Cancels(weights, covar, n) THEN NaN
                         ELSE [kind |-> "num",
                               sq |-> QuadForm(weights, covar, n) * TRADING_DAYS]]

\* np.isclose(port_std, 0): |port_std| <= 1e-8, that is
\* sqrt(sq)/WeightSteps <= 1/AtolInv, squared on both sides; False for nan.
IsCloseZero(port_std) ==
    /\ port_std.kind = "num"
    /\ port_std.sq <= (WeightSteps * WeightSteps) \div (AtolInv * AtolInv)

\* Load_Data.py:41
ZeroVolGuard(port_std) == IsCloseZero(port_std)

\* Load_Data.py:38-44. risk_free_rate is annual, in bp. A division by nan gives
\* nan; a division by an exactly zero volatility is reported as kind
\* "ZeroDivision".
negative_sharpe(weights, mean_return, covar, risk_free_rate, rounds_negative) ==
    LET perf == port_performance(weights, mean_return, covar, rounds_negative)
    IN  IF ZeroVolGuard(perf.port_std) THEN Inf
        ELSE IF perf.port_std.kind = "nan" THEN NaN
        ELSE IF perf.port_std.sq = 0 THEN [kind |-> "ZeroDivision"]
        ELSE [kind |-> "num",
              num  |-> -(perf.port_return - risk_free_rate * WeightSteps),
              sq   |-> perf.port_std.sq]

\* Load_Data.py:63-65
portfolio_var(weights, mean_return, covar, rounds_negative) ==
    port_performance(weights, mean_return, covar, rounds_negative).port_std

\* Load_Data.py:83-84
portfolio_return(weights, mean_return, covar, rounds_negative) ==
    port_performance(weights, mean_return, covar, rounds_negative).port_return

(***************************************************************************)
(* Exact comparison of objective values                                    *)
(***************************************************************************)
RECURSIVE FracLeq(_, _, _, _)
\* a/b <= c/d for a, c >= 0 and b, d > 0, by continued-fraction expansion
\* (no product is formed, so no intermediate value exceeds its operands).
FracLeq(a, b, c, d) ==
    LET qa == a \div b
        qc == c \div d
        ra == a % b
        rc == c % d
    IN  IF qa # qc THEN qa < qc
        ELSE IF ra = 0 THEN TRUE
        ELSE IF rc = 0 THEN FALSE
        ELSE FracLeq(d, rc, b, ra)

\* u <= v for two values of negative_sharpe (the order SLSQP minimises in).
SharpeLeq(u, v) ==
    IF v.kind # "num" THEN TRUE
    ELSE IF u.kind # "num" THEN FALSE
    ELSE IF u.num <= 0 /\ v.num >= 0 THEN TRUE
    ELSE IF u.num >= 0 /\ v.num <= 0 THEN u.num = 0 /\ v.num = 0
    ELSE IF u.num > 0 THEN FracLeq(u.num * u.num, u.sq, v.num * v.num, v.sq)
    ELSE FracLeq(v.num * v.num, v.sq, u.num * u.num, u.sq)

\* u <= v for two volatilities (values of portfolio_var)
VolLeq(u, v) ==
    IF v.kind # "num" THEN TRUE
    ELSE IF u.kind # "num" THEN FALSE
    ELSE u.sq <= v.sq

(***************************************************************************)
(* The SLSQP problems                                                      *)
(***************************************************************************)
\* The budget constraint left out of the problem.
NoBudget(x, n) == 0

\* Load_Data.py:51, 71, 96: lambda x: np.sum(x) - 1
BudgetConstraint(x, n) == SumTo(x, n) - WeightSteps

\* Load_Data.py:49, 75, 101: the equal-weight initial guess 1/N. It is on the
\* lattice when n divides WeightSteps; the universe in use has n = 2.
InitialWeights(n) == [i \in 1..n |-> WeightSteps \div n]

\* Load_Data.py:52, 72, 98: tuple(constraint_set for _ in range(num_assets))
AssetBounds(constraint_set, n) == [i \in 1..n |-> constraint_set]

\* scipy.optimize.minimize(method="SLSQP") as the three callers use it: the
\* minimiser of fun over the lattice points inside the bounds on which every
\* equality constraint is zero. `converges` is the solver's own verdict on its
\* iteration (tolerances, iteration limit); an empty feasible set never converges.
\* A failed result carries the iterate the solver stopped at (taken to be the
\* initial guess x0) and the objective there.
SLSQP(fun(_), Leq(_, _), x0, n, bounds, eqcons(_), converges) ==
    LET feasible == {x \in [1..n -> (bounds[1][1])..(bounds[1][2])] :
                        /\ eqcons(x)
                        /\ \A i \in 1..n : bounds[i][1] <= x[i] /\ x[i] <= bounds[i][2]}
    IN  IF ~converges THEN
            [success |-> FALSE, x |-> x0, fun |-> fun(x0),
             message |-> "Iteration limit reached"]
        ELSE IF feasible = {} THEN
            [success |-> FALSE, x |-> x0, fun |-> fun(x0),
             message |-> "Inequality constraints incompatible"]
        ELSE LET value  == [x \in feasible |-> fun(x)]
                 values == {value[x] : x \in feasible}
                 least  == CHOOSE v \in values : \A u \in values : Leq(v, u)
                 best   == CHOOSE x \in feasible : value[x] = least
             IN  [success |-> TRUE, x |-> best, fun |-> least,
                  message |-> "Optimization terminated successfully"]

\* Load_Data.py:47-60
max_sharpe_ratio(mean_return, covar, risk_free_rate, constraint_set, converges, rounds_negative) ==
    LET num_assets == Len(mean_return)
    IN  SLSQP(LAMBDA x : negative_sharpe(x, mean_return, covar, risk_free_rate, rounds_negative),
              SharpeLeq, InitialWeights(num_assets), num_assets, AssetBounds(constraint_set, num_assets),
              LAMBDA x : BudgetConstraint(x, num_assets) = 0,
              converges)

\* Load_Data.py:68-80
min_portfolio_var(mean_return, covar, constraint_set, converges, rounds_negative) ==
    LET num_assets == Len(mean_return)
    IN  SLSQP(LAMBDA x : portfolio_var(x, mean_return, covar, rounds_negative),
              VolLeq, InitialWeights(num_assets), num_assets, AssetBounds(constraint_set, num_assets),
              LAMBDA x : BudgetConstraint(x, num_assets) = 0,
              converges)

\* Load_Data.py:87-106. target_return is in units of 1/(N_FRONTIER-1) of the
\* unit of portfolio_return.
efficient_frontier(mean_return, covar, target_return, constraint_set, converges, rounds_negative) ==
    LET num_assets == Len(mean_return)
    IN  SLSQP(LAMBDA x : portfolio_var(x, mean_return, covar, rounds_negative),
              VolLeq, InitialWeights(num_assets), num_assets, AssetBounds(constraint_set, num_assets),
              LAMBDA x : /\ BudgetConstraint(x, num_assets) = 0
                         /\ portfolio_return(x, mean_return, covar, rounds_negative) * (N_FRONTIER - 1)
                             - target_return = 0,
              converges)

(***************************************************************************)
(* Text: a string is a sequence of one-character strings                   *)
(***************************************************************************)
Comma == ","
Space == " "

\* str.upper on one character of the alphabet in use
UpperChar(c) == IF c = "a" THEN "A" ELSE IF c = "b" THEN "B" ELSE c

\* str.upper
Upper(s) == [i \in 1..Len(s) |-> UpperChar(s[i])]

RECURSIVE LStrip(_)
LStrip(s) == IF s # <<>> /\ Head(s) = Space THEN LStrip(Tail(s)) ELSE s

RECURSIVE RStrip(_)
RStrip(s) ==
    IF s # <<>> /\ s[Len(s)] = Space THEN RStrip(SubSeq(s, 1, Len(s) - 1)) ELSE s

\* str.strip
Strip(s) == RStrip(LStrip(s))

RECURSIVE SplitFrom(_, _, _)
\* the pieces of s from position i on, cur being the piece under construction
SplitFrom(s, i, cur) ==
    IF i > Len(s) THEN <<cur>>
    ELSE IF s[i] = Comma THEN <<cur>> \o SplitFrom(s, i + 1, <<>>)
    ELSE SplitFrom(s, i + 1, Append(cur, s[i]))

\* raw_value.split(","): the empty string splits into one empty piece
Split(s) == SplitFrom(s, 1, <<>>)

RECURSIVE SelectNonEmptyStripped(_)
\* [t.strip().upper() for t in pieces if t.strip()]
SelectNonEmptyStripped(pieces) ==
    IF pieces = <<>> THEN <<>>
    ELSE LET t == Strip(Head(pieces))
         IN  (IF t # <<>> THEN <<Upper(t)>> ELSE <<>>)
             \o SelectNonEmptyStripped(Tail(pieces))

RECURSIVE DictFromKeys(_, _)
\* list(dict.fromkeys(tickers)): first occurrences, in order
DictFromKeys(items, seen) ==
    IF items = <<>> THEN <<>>
    ELSE IF Head(items) \in seen THEN DictFromKeys(Tail(items), seen)
    ELSE <<Head(items)>> \o DictFromKeys(Tail(items), seen \cup {Head(items)})

\* The list comprehension alone, duplicates kept.
ParseKeepingDuplicates(raw_value) == SelectNonEmptyStripped(Split(raw_value))

\* app.py:14-16
_parse_tickers(raw_value) == DictFromKeys(SelectNonEmptyStripped(Split(raw_value)), {})

(***************************************************************************)
(* Market data and get_data                                                *)
(***************************************************************************)
\* Symbols the data source knows.
KnownTickers == {<<"A">>, <<"B">>}

\* What web.DataReader(...).pct_change() holds: per known symbol the daily simple
\* returns (in bp) of the window, oldest first. A symbol the source does not know
\* is a column of NaN.
Returns(a, b) == [t \in KnownTickers |-> IF t = <<"A">> THEN a ELSE b]

\* The histories of a session. With two return rows the covariance has rank 1:
\* volatility along the budget line is |c . w| for a fixed c, and the Sharpe
\* ratio is a quotient of two functions linear in w, hence monotone where c . w
\* keeps its sign. In "rising" and "falling" c . w = 0 lies outside the
\* long-only segment, so both named portfolios are corners of it. In "riskless"
\* asset A loses 1 bp every day: the corner (1, 0) has volatility exactly 0 and
\* an excess return below zero, so the Sharpe ratio grows all the way to the
\* corner (0, 1). "balanced" has three rows, equal means and equal variances:
\* both named portfolios are (1/2, 1/2). "no rows" has no return row at all.
MarketData ==
    { [name |-> "rising",   returns |-> Returns(<<2, 0>>, <<5, 1>>)],
      [name |-> "falling",  returns |-> Returns(<<0, -2>>, <<1, -5>>)],
      [name |-> "riskless", returns |-> Returns(<<-1, -1>>, <<5, 1>>)],
      [name |-> "balanced", returns |-> Returns(<<6, 0, 0>>, <<0, 6, 0>>)],
      [name |-> "no rows",  returns |-> Returns(<<>>, <<>>)] }

\* Two anti-correlated assets: the long-only portfolio (10/19, 9/19) has
\* volatility exactly 0. Used for evaluations of negative_sharpe only: with a
\* riskless portfolio of positive excess return inside the bounds the Maximum
\* Sharpe problem has no solution.
HedgedData ==
    { [name |-> "hedged",   returns |-> Returns(<<10, -8>>, <<-8, 12>>)] }

\* Load_Data.py:22: rows of the selected columns, rows with a NaN dropped
simreturns(stocks, source) ==
    IF \E i \in 1..Len(stocks) : stocks[i] \notin KnownTickers THEN <<>>
    ELSE [t \in 1..Len(source.returns[stocks[1]]) |->
            [i \in 1..Len(stocks) |-> source.returns[stocks[i]][t]]]

\* Load_Data.py:26: simreturns.mean()
Mean(rows, i) == SumTo([t \in 1..Len(rows) |-> rows[t][i]], Len(rows)) \div Len(rows)

\* Load_Data.py:27: simreturns.cov(), the sample covariance (ddof = 1)
Cov(rows, i, j) ==
    SumTo([t \in 1..Len(rows) |-> (rows[t][i] - Mean(rows, i)) * (rows[t][j] - Mean(rows, j))],
          Len(rows)) \div (Len(rows) - 1)

\* Load_Data.py:10-28
get_data(stocks, start, end, source) ==
    IF stocks = <<>> THEN
        [ok |-> FALSE, exc |-> "At least one ticker is required."]
    ELSE IF start >= end THEN
        [ok |-> FALSE, exc |-> "Start date must be earlier than end date."]
    ELSE LET rows == simreturns(stocks, source)
             n    == Len(stocks)
         IN  IF rows = <<>> THEN
                 [ok |-> FALSE, exc |-> "No return data available for the selected inputs."]
             ELSE [ok |-> TRUE, index |-> stocks,
                   mean_return |-> [i \in 1..n |-> Mean(rows, i)],
                   covar |-> [i \in 1..n |-> [j \in 1..n |-> Cov(rows, i, j)]]]

(***************************************************************************)
(* Rounding and the frontier grid                                          *)
(***************************************************************************)
\* round(v, 2) of v = num/den hundredths of a percent: nearest integer, ties to even
RoundHalfEven(num, den) ==
    LET fl == num \div den
        r2 == 2 * (num % den)
    IN  IF r2 < den THEN fl
        ELSE IF r2 > den THEN fl + 1
        ELSE IF fl % 2 = 0 THEN fl ELSE fl + 1

RECURSIVE ISqrtIn(_, _, _)
\* the integer square root of m, known to lie in lo..hi-1
ISqrtIn(m, lo, hi) ==
    IF hi - lo <= 1 THEN lo
    ELSE LET mid == (lo + hi) \div 2
         IN  IF mid * mid <= m THEN ISqrtIn(m, mid, hi) ELSE ISqrtIn(m, lo, mid)

ISqrt(m) == ISqrtIn(m, 0, 46341)

\* round(vol * 100, 2) of a volatility sqrt(sq)/WeightSteps
RoundVol(vol) ==
    IF vol.kind = "nan" THEN NaN
    ELSE LET m    == 4 * vol.sq
             root == ISqrt(m)
             near == (root + WeightSteps) \div (2 * WeightSteps)
         IN  IF root * root = m /\ root % (2 * WeightSteps) = WeightSteps /\ near % 2 = 1
             THEN near - 1 ELSE near

\* The grid started one step late (index i where i-1 is meant).
LinspaceShifted(start, stop, num) ==
    [i \in 1..num |-> (num - 1) * start + i * (stop - start)]

\* Load_Data.py:131: np.linspace(start, stop, num), entry i is
\* start + (i-1)*(stop-start)/(num-1), kept as its numerator over num-1.
Linspace(start, stop, num) ==
    [i \in 1..num |-> (num - 1) * start + (i - 1) * (stop - start)]

\* The frontier entry taken from the result whether or not it converged.
FrontierValueUnchecked(ef_result) == ef_result.fun

\* Load_Data.py:134-137
FrontierValue(ef_result) == IF ef_result.success THEN ef_result.fun ELSE NaN

\* Load_Data.py:186: round(vol * 100, 2) if not np.isnan(vol) else None
RenderVol(vol) ==
    IF vol.kind # "nan" THEN [kind |-> "num", value |-> RoundVol(vol)] ELSE None

\* Load_Data.py:187: round(ret * 100, 2) of a frontier target
RenderTarget(ret) == RoundHalfEven(ret, WeightSteps * (N_FRONTIER - 1))

\* Only the Maximum Sharpe outcome tested.
OnlyMaxSharpeChecked(ms, mv) == ms.success

\* Load_Data.py:112-115: neither raise is taken
NamedSolvesSucceeded(ms, mv) == ms.success /\ mv.success

\* The diagnostic of the solver left out of the error.
FailureMessageBare(ms, mv) ==
    IF ~ms.success THEN <<"Max Sharpe optimization failed: ", "">>
    ELSE <<"Min volatility optimization failed: ", "">>

\* Load_Data.py:112-115: the ValueError raised, Max Sharpe tested first
FailureMessage(ms, mv) ==
    IF ~ms.success THEN <<"Max Sharpe optimization failed: ", ms.message>>
    ELSE <<"Min volatility optimization failed: ", mv.message>>

\* app.py:50
TooFewTickers(tks) == Len(tks) < 2

\* The bounds test with > where >= is meant.
BoundsInverted(lower, upper) == lower > upper

\* app.py:52
BoundsDegenerate(lower, upper) == lower >= upper

(***************************************************************************)
(* State                                                                   *)
(***************************************************************************)
VARIABLES
    sidebar,      \* app.py:24-46: the widget values and tickers = _parse_tickers(raw)
    stooq,        \* the data source's content for this session
    slsqp,        \* the solver's result per problem it has been run on
    stats_cache,  \* app.py:19: st.cache_data of _load_statistics
    pc,           \* position of the run_clicked handler
    caller,       \* who called calculated_result: "app" (app.py:67) or "ef_graph"
    app,          \* locals of the handler
    cr,           \* locals of the running calculated_result call
    screen,       \* what the results area shows
    trace,        \* calls made and exceptions raised since the click
    fn            \* arguments and value of one negative_sharpe evaluation

vars == <<sidebar, stooq, slsqp, stats_cache, pc, caller, app, cr, screen, trace, fn>>

\* Most frontier problems of one request on which SLSQP stops without converging
\* although a feasible point exists.
MaxNonConverged == 1

\* Longest raw ticker text.
MaxRawLen == 5

Alphabet == {"a", "A", "b", Comma, Space}

RawInputs == UNION {[1..n -> Alphabet] : n \in 0..MaxRawLen}

\* "a,b"  "a, A"  "ab,b"
RawSamples == { <<"a", Comma, "b">>,
                <<"a", Comma, Space, "A">>,
                <<"a", "b", Comma, "b">> }

\* (lower, upper) per asset, in lattice units (WeightSteps is a weight of 1):
\* the default (0, 1); (20/38, 1), which no two weights summing to 1 satisfy;
\* lower = upper; lower > upper.
BoundPairs == { <<0, WeightSteps>>, <<20, WeightSteps>>,
                <<WeightSteps, WeightSteps>>, <<WeightSteps, 0>> }

\* Annual risk-free rates in bp: 0 and the default 0.02.
RateChoices == {0, 200}

Dates == {1, 2}

NoFn == [kind |-> "None"]

AppBlank == [constraint_set |-> None, stats |-> None, result |-> None, fig |-> None]

CrBlank == [max_sharpe_result |-> None, min_vol_result |-> None, ef_result |-> None,
            opt |-> None, minimal |-> None,
            optimal_allocation |-> None, minimal_allocation |-> None,
            ef_vols |-> <<>>, target_returns |-> <<>>]

\* app.py:108
InfoScreen == << [kind |-> "info", stage |-> "none",
                  text |-> <<"Set your portfolio parameters in the sidebar">>] >>

\* app.py:24-46 with the raw ticker text drawn from raws
Sidebars(raws, rates, pairs) ==
    { [raw_tickers |-> raw, tickers |-> _parse_tickers(raw),
       start_date |-> sd, end_date |-> ed, risk_free_rate |-> rf,
       lower_bound |-> b[1], upper_bound |-> b[2]] :
        raw \in raws, sd \in Dates, ed \in Dates, rf \in rates, b \in pairs }

\* app.py:31-32: end_date has min_value = start_date + 1 day
WidgetsConsistent(sb) == sb.end_date >= sb.start_date + 1

Init ==
    /\ sidebar \in {sb \in Sidebars(RawSamples, RateChoices, BoundPairs) :
                        WidgetsConsistent(sb)}
    /\ stooq \in MarketData
    /\ slsqp = << >>
    /\ stats_cache = << >>
    /\ pc = "idle"
    /\ caller = "none"
    /\ app = AppBlank
    /\ cr = CrBlank
    /\ screen = InfoScreen
    /\ trace = <<>>
    /\ fn = NoFn

Event(op, arg, ok) == [op |-> op, call |-> caller, arg |-> arg, success |-> ok]

\* Frontier problems on which SLSQP has stopped without converging.
Stalled == {k \in DOMAIN slsqp : k[1] = "frontier"
                                 /\ slsqp[k].message = "Iteration limit reached"}

\* The results SLSQP may return on problem `key`. The solver is deterministic: a
\* problem it has solved before on the inputs now in the sidebar gets the same
\* result. Otherwise the iteration either converges or, when a feasible
\* point exists, may also stop early; at most MaxNonConverged frontier problems
\* stop early.
Outcomes(key, converged, stalled) ==
    IF key \in DOMAIN slsqp THEN {slsqp[key]}
    ELSE IF ~converged.success THEN {converged}
    ELSE IF key[1] = "frontier" /\ Cardinality(Stalled) >= MaxNonConverged THEN {converged}
    ELSE {converged, stalled}

Record(key, res) == IF key \in DOMAIN slsqp THEN slsqp ELSE (key :> res) @@ slsqp

\* app.py:69-70: except Exception as exc: st.error(f"Optimization failed: {exc}")
ExceptScreen(exc) ==
    << [kind |-> "error", stage |-> "Optimization failed", text |-> exc] >>

(***************************************************************************)
(* A script run that the button did not cause, app.py:24-46 and 107-108    *)
(***************************************************************************)
\* Streamlit re-executes app.py on every interaction. When the user has edited a
\* widget (or nothing), run_clicked is False: the sidebar holds the new values,
\* the locals of the previous run are gone and the results area shows the info
\* message. The solver's results are remembered for unchanged inputs only.
ScriptRerun ==
    /\ pc = "idle"
    /\ \E sb \in {x \in Sidebars(RawSamples, RateChoices, BoundPairs) : WidgetsConsistent(x)} :
          /\ sidebar' = sb
          /\ slsqp' = IF sb = sidebar THEN slsqp ELSE << >>
    /\ screen' = InfoScreen
    /\ app' = AppBlank
    /\ cr' = CrBlank
    /\ caller' = "none"
    /\ trace' = <<>>
    /\ UNCHANGED <<stooq, stats_cache, pc, fn>>

(***************************************************************************)
(* The run_clicked handler, app.py:49-106                                  *)
(***************************************************************************)
\* app.py:49-55
RunClicked ==
    /\ pc = "idle"
    /\ trace' = <<>>
    /\ cr' = CrBlank
    /\ caller' = "none"
    /\ IF TooFewTickers(sidebar.tickers) THEN
            /\ screen' = << [kind |-> "error", stage |-> "input",
                            text |-> <<"Please enter at least 2 tickers.">>] >>
            /\ pc' = "idle"
            /\ app' = AppBlank
       ELSE IF BoundsDegenerate(sidebar.lower_bound, sidebar.upper_bound) THEN
            /\ screen' = << [kind |-> "error", stage |-> "input",
                            text |-> <<"Lower bound must be smaller than upper bound.">>] >>
            /\ pc' = "idle"
            /\ app' = AppBlank
       ELSE /\ screen' = <<>>
            /\ pc' = "load"
            /\ app' = [AppBlank EXCEPT
                          !.constraint_set = <<sidebar.lower_bound, sidebar.upper_bound>>]
    /\ UNCHANGED <<sidebar, stooq, slsqp, stats_cache, fn>>

\* app.py:57 with 19-21: _load_statistics, cached on its arguments
LoadStatistics ==
    /\ pc = "load"
    /\ LET key == <<sidebar.tickers, sidebar.start_date, sidebar.end_date>>
       IN  IF key \in DOMAIN stats_cache THEN
                /\ app' = [app EXCEPT !.stats = stats_cache[key]]
                /\ pc' = "cr_max_sharpe"
                /\ caller' = "app"
                /\ trace' = Append(trace, Event("_load_statistics", 0, TRUE))
                /\ UNCHANGED <<stats_cache, screen>>
           ELSE LET got == get_data(sidebar.tickers, sidebar.start_date,
                                    sidebar.end_date, stooq)
                IN  IF got.ok THEN
                        /\ app' = [app EXCEPT !.stats = got]
                        /\ stats_cache' = (key :> got) @@ stats_cache
                        /\ pc' = "cr_max_sharpe"
                        /\ caller' = "app"
                        /\ trace' = Append(trace, Event("_load_statistics", 0, TRUE))
                        /\ UNCHANGED screen
                    ELSE
                        /\ trace' = trace \o << Event("_load_statistics", 0, FALSE),
                                                [op |-> "raise", call |-> "get_data",
                                                 arg |-> 0, success |-> FALSE] >>
                        /\ screen' = ExceptScreen(<<got.exc>>)
                        /\ pc' = "idle"
                        /\ UNCHANGED <<app, stats_cache, caller>>
    /\ UNCHANGED <<sidebar, stooq, slsqp, cr, fn>>

(***************************************************************************)
(* calculated_result, Load_Data.py:109-151, called from app.py:67 and from *)
(* ef_graph (Load_Data.py:165) with the same arguments                     *)
(***************************************************************************)
\* Load_Data.py:110
MaxSharpeSolve ==
    /\ pc = "cr_max_sharpe"
    /\ \E rounds_negative \in BOOLEAN :
       \E res \in Outcomes(<<"max_sharpe", 0>>,
              max_sharpe_ratio(app.stats.mean_return, app.stats.covar,
                               sidebar.risk_free_rate, app.constraint_set, TRUE,
                               rounds_negative),
              max_sharpe_ratio(app.stats.mean_return, app.stats.covar,
                               sidebar.risk_free_rate, app.constraint_set, FALSE,
                               rounds_negative)) :
          /\ cr' = [CrBlank EXCEPT !.max_sharpe_result = res]
          /\ slsqp' = Record(<<"max_sharpe", 0>>, res)
          /\ trace' = Append(trace, Event("max_sharpe_ratio", 0, res.success))
    /\ pc' = "cr_min_vol"
    /\ UNCHANGED <<sidebar, stooq, stats_cache, caller, app, screen, fn>>

\* Load_Data.py:111
MinVolSolve ==
    /\ pc = "cr_min_vol"
    /\ \E rounds_negative \in BOOLEAN :
       \E res \in Outcomes(<<"min_vol", 0>>,
              min_portfolio_var(app.stats.mean_return, app.stats.covar,
                                app.constraint_set, TRUE, rounds_negative),
              min_portfolio_var(app.stats.mean_return, app.stats.covar,
                                app.constraint_set, FALSE, rounds_negative)) :
          /\ cr' = [cr EXCEPT !.min_vol_result = res]
          /\ slsqp' = Record(<<"min_vol", 0>>, res)
          /\ trace' = Append(trace, Event("min_portfolio_var", 0, res.success))
    /\ pc' = "cr_check"
    /\ UNCHANGED <<sidebar, stooq, stats_cache, caller, app, screen, fn>>

\* Load_Data.py:112-115: a raise; it leaves calculated_result (and ef_graph, which
\* does not catch it) and lands in the handler's except clause, app.py:69-70.
RaiseFailure ==
    /\ pc = "cr_check"
    /\ ~NamedSolvesSucceeded(cr.max_sharpe_result, cr.min_vol_result)
    /\ LET exc == FailureMessage(cr.max_sharpe_result, cr.min_vol_result)
       IN  /\ trace' = Append(trace, [op |-> "raise", call |-> "calculated_result",
                                      arg |-> 0, success |-> FALSE])
           /\ screen' = ExceptScreen(exc)
    /\ pc' = "idle"
    /\ UNCHANGED <<sidebar, stooq, slsqp, stats_cache, caller, app, cr, fn>>

\* Load_Data.py:117-131: both performance points, both allocation tables, the
\* empty frontier list and the target grid
Evaluate ==
    /\ pc = "cr_check"
    /\ NamedSolvesSucceeded(cr.max_sharpe_result, cr.min_vol_result)
    /\ \E rounds_negative \in BOOLEAN :
       LET optimal_weights == cr.max_sharpe_result.x
           minimal_weights == cr.min_vol_result.x
           opt     == port_performance(optimal_weights, app.stats.mean_return,
                                       app.stats.covar, rounds_negative)
           minimal == port_performance(minimal_weights, app.stats.mean_return,
                                       app.stats.covar, rounds_negative)
       IN  /\ cr' = [cr EXCEPT
                        !.opt = opt,
                        !.minimal = minimal,
                        !.optimal_allocation =
                            [index |-> app.stats.index, Allocation |-> optimal_weights],
                        !.minimal_allocation =
                            [index |-> app.stats.index, Allocation |-> minimal_weights],
                        !.ef_vols = <<>>,
                        !.target_returns =
                            Linspace(minimal.port_return, opt.port_return, N_FRONTIER)]
           /\ trace' = trace \o << Event("port_performance", 1, cr.max_sharpe_result.success),
                                   Event("port_performance", 2, cr.min_vol_result.success),
                                   Event("DataFrame", 1, cr.max_sharpe_result.success),
                                   Event("DataFrame", 2, cr.min_vol_result.success) >>
    /\ pc' = "cr_frontier"
    /\ UNCHANGED <<sidebar, stooq, slsqp, stats_cache, caller, app, screen, fn>>

\* Load_Data.py:132-137: one pass of the loop body
FrontierSolve ==
    /\ pc = "cr_frontier"
    /\ Len(cr.ef_vols) < Len(cr.target_returns)
    /\ LET i      == Len(cr.ef_vols) + 1
           target == cr.target_returns[i]
       IN  \E rounds_negative \in BOOLEAN :
           \E ef_result \in Outcomes(<<"frontier", i>>,
                  efficient_frontier(app.stats.mean_return, app.stats.covar,
                                     target, app.constraint_set, TRUE, rounds_negative),
                  efficient_frontier(app.stats.mean_return, app.stats.covar,
                                     target, app.constraint_set, FALSE, rounds_negative)) :
              /\ cr' = [cr EXCEPT !.ef_result = ef_result,
                                  !.ef_vols = Append(@, FrontierValue(ef_result))]
              /\ slsqp' = Record(<<"frontier", i>>, ef_result)
              /\ trace' = Append(trace, Event("efficient_frontier", i, ef_result.success))
    /\ UNCHANGED <<sidebar, stooq, stats_cache, pc, caller, app, screen, fn>>

\* Load_Data.py:139-151: the returned tuple
ReturnValue ==
    [opt_return         |-> RoundHalfEven(cr.opt.port_return, WeightSteps),
     opt_std            |-> RoundVol(cr.opt.port_std),
     optimal_allocation |-> cr.optimal_allocation,
     minimal_return     |-> RoundHalfEven(cr.minimal.port_return, WeightSteps),
     minimal_std        |-> RoundVol(cr.minimal.port_std),
     minimal_allocation |-> cr.minimal_allocation,
     ef_vols            |-> cr.ef_vols,
     target_returns     |-> cr.target_returns]

\* Load_Data.py:139-151 returning to app.py:58-67; app.py:68 then calls ef_graph,
\* whose first statement (Load_Data.py:165) calls calculated_result again.
ReturnToApp ==
    /\ pc = "cr_frontier"
    /\ Len(cr.ef_vols) = Len(cr.target_returns)
    /\ caller = "app"
    /\ app' = [app EXCEPT !.result = ReturnValue]
    /\ trace' = Append(trace, Event("return", 0, TRUE))
    /\ caller' = "ef_graph"
    /\ pc' = "cr_max_sharpe"
    /\ UNCHANGED <<sidebar, stooq, slsqp, stats_cache, cr, screen, fn>>

\* Load_Data.py:139-151 returning to ef_graph, and Load_Data.py:167-208: the figure
ReturnToGraph ==
    /\ pc = "cr_frontier"
    /\ Len(cr.ef_vols) = Len(cr.target_returns)
    /\ caller = "ef_graph"
    /\ LET got == ReturnValue
       IN  app' = [app EXCEPT !.fig =
                [max_sharpe_point |-> [x |-> <<got.opt_std>>, y |-> <<got.opt_return>>],
                 min_vol_point    |-> [x |-> <<got.minimal_std>>, y |-> <<got.minimal_return>>],
                 ef_curve         |->
                    [x |-> [i \in 1..Len(got.ef_vols) |-> RenderVol(got.ef_vols[i])],
                     y |-> [i \in 1..Len(got.target_returns) |->
                              RenderTarget(got.target_returns[i])]]]]
    /\ trace' = Append(trace, Event("return", 0, TRUE))
    /\ pc' = "show"
    /\ UNCHANGED <<sidebar, stooq, slsqp, stats_cache, caller, cr, screen, fn>>

\* app.py:84, 90: (Allocation * 100).round(2) of a weight x/WeightSteps
AllocationPercent(allocation) ==
    [index |-> allocation.index,
     percent |-> [i \in 1..Len(allocation.Allocation) |->
                    RoundHalfEven(allocation.Allocation[i] * 10000, WeightSteps)]]

\* app.py:71-106: the else clause of the try
ShowResults ==
    /\ pc = "show"
    /\ LET display_opt == AllocationPercent(app.result.optimal_allocation)
           display_min == AllocationPercent(app.result.minimal_allocation)
       IN  screen' =
            << [kind |-> "metric", stage |-> "none",
                text |-> <<"Max Sharpe Return", app.result.opt_return>>],
               [kind |-> "metric", stage |-> "none",
                text |-> <<"Max Sharpe Volatility", app.result.opt_std>>],
               [kind |-> "metric", stage |-> "none",
                text |-> <<"Min Vol Return", app.result.minimal_return>>],
               [kind |-> "metric", stage |-> "none",
                text |-> <<"Min Volatility", app.result.minimal_std>>],
               [kind |-> "chart", stage |-> "none", text |-> <<app.fig>>],
               [kind |-> "table", stage |-> "none", text |-> <<display_opt>>],
               [kind |-> "table", stage |-> "none", text |-> <<display_min>>],
               [kind |-> "download", stage |-> "none",
                text |-> <<display_opt, display_min>>] >>
    /\ pc' = "idle"
    /\ UNCHANGED <<sidebar, stooq, slsqp, stats_cache, caller, app, cr, trace, fn>>

Next ==
    \/ ScriptRerun
    \/ RunClicked
    \/ LoadStatistics
    \/ MaxSharpeSolve
    \/ MinVolSolve
    \/ RaiseFailure
    \/ Evaluate
    \/ FrontierSolve
    \/ ReturnToApp
    \/ ReturnToGraph
    \/ ShowResults

Spec == Init /\ [][Next]_vars

(***************************************************************************)
(* The sidebar and the validation of the handler over all short ticker     *)
(* texts                                                                   *)
(***************************************************************************)
InitTickers ==
    /\ sidebar \in {sb \in Sidebars(RawInputs, {200},
                                    {<<0, WeightSteps>>, <<WeightSteps, WeightSteps>>}) :
                        WidgetsConsistent(sb)}
    /\ stooq \in {m \in MarketData : m.name = "rising"}
    /\ slsqp = << >>
    /\ stats_cache = << >>
    /\ pc = "idle"
    /\ caller = "none"
    /\ app = AppBlank
    /\ cr = CrBlank
    /\ screen = InfoScreen
    /\ trace = <<>>
    /\ fn = NoFn

NextTickers == RunClicked

SpecTickers == InitTickers /\ [][NextTickers]_vars

(***************************************************************************)
(* One evaluation of negative_sharpe on arbitrary lattice weights          *)
(***************************************************************************)
InitSharpe ==
    /\ sidebar \in {sb \in Sidebars({<<"a", Comma, "b">>}, {200}, {<<0, WeightSteps>>}) :
                        WidgetsConsistent(sb)}
    /\ stooq \in {m \in MarketData \cup HedgedData : m.name # "no rows"}
    /\ slsqp = << >>
    /\ stats_cache = << >>
    /\ pc = "negative_sharpe"
    /\ caller = "none"
    /\ app = AppBlank
    /\ cr = CrBlank
    /\ screen = InfoScreen
    /\ trace = <<>>
    /\ \E w \in [1..2 -> (-WeightSteps)..WeightSteps], rf \in RateChoices,
          rounds_negative \in BOOLEAN :
          LET got == get_data(sidebar.tickers, sidebar.start_date, sidebar.end_date, stooq)
          IN  fn = [kind |-> "call", weights |-> w, mean_return |-> got.mean_return,
                    covar |-> got.covar, risk_free_rate |-> rf,
                    rounds_negative |-> rounds_negative, value |-> None]

\* Load_Data.py:38-44 applied to the arguments in fn
EvalNegativeSharpe ==
    /\ pc = "negative_sharpe"
    /\ fn' = [fn EXCEPT !.value =
                negative_sharpe(fn.weights, fn.mean_return, fn.covar, fn.risk_free_rate,
                                fn.rounds_negative)]
    /\ pc' = "returned"
    /\ UNCHANGED <<sidebar, stooq, slsqp, stats_cache, caller, app, cr, screen, trace>>

NextSharpe == EvalNegativeSharpe

SpecSharpe == InitSharpe /\ [][NextSharpe]_vars

(***************************************************************************)
(* Properties                                                              *)
(***************************************************************************)
SolverOps == {"max_sharpe_ratio", "min_portfolio_var", "efficient_frontier"}

Last(seq) == seq[Len(seq)]

\* Both named solves of the running call are done and one did not converge.
NamedSolveFailed ==
    /\ cr.max_sharpe_result # None
    /\ cr.min_vol_result # None
    /\ ~(cr.max_sharpe_result.success /\ cr.min_vol_result.success)

\* The outcome calculated_result tests first among the failed ones.
FirstFailed ==
    IF ~cr.max_sharpe_result.success THEN cr.max_sharpe_result ELSE cr.min_vol_result

\* Position in trace of the first solve of the running call of calculated_result.
CallStart ==
    IF \E p \in 1..Len(trace) : trace[p].op = "return" THEN
        (CHOOSE p \in 1..Len(trace) : trace[p].op = "return") + 1
    ELSE IF trace # <<>> /\ trace[1].op = "_load_statistics" THEN 2 ELSE 1

\* C1: when the Maximum Sharpe or the Minimum Volatility solve reports
\* non-convergence, calculated_result computes no performance point, builds no
\* allocation table, runs no frontier solve and returns nothing; once it has
\* left, it has raised an error that carries the diagnostic of the failed solver.
C1_FailedNamedSolveAbandonsResult ==
    NamedSolveFailed =>
        /\ pc \in {"cr_check", "idle"}
        /\ cr.opt = None /\ cr.minimal = None
        /\ cr.optimal_allocation = None /\ cr.minimal_allocation = None
        /\ cr.ef_result = None /\ cr.ef_vols = <<>> /\ cr.target_returns = <<>>
        /\ \A p \in CallStart..Len(trace) :
              trace[p].op \notin {"port_performance", "DataFrame",
                                  "efficient_frontier", "return"}
        /\ pc = "idle" =>
              /\ Last(trace).op = "raise" /\ Last(trace).call = "calculated_result"
              /\ Len(screen) = 1 /\ screen[1].kind = "error"
              /\ FirstFailed.message # ""
              /\ screen[1].text[2] = FirstFailed.message
              /\ app.result = None /\ app.fig = None

\* C1 witness: calculated_result has raised because the Minimum Volatility solve
\* alone did not converge.
C1_Witness ==
    /\ pc = "idle" /\ NamedSolveFailed
    /\ cr.max_sharpe_result.success /\ ~cr.min_vol_result.success
    /\ Last(trace).op = "raise"

Degenerate ==
    Len(sidebar.tickers) < 2 \/ sidebar.lower_bound >= sidebar.upper_bound

\* C2: with fewer than 2 assets, or a lower bound not below the upper bound, a
\* script run ends in the info message or, after a click, in an input error:
\* no call has been made in it (no statistics load, no solve), nothing is
\* computed, no solver result exists for these inputs, and no statistics have
\* ever been loaded for fewer than 2 tickers.
C2_DegenerateInputRejectedFirst ==
    /\ Degenerate =>
          /\ pc = "idle"
          /\ trace = <<>> /\ slsqp = << >>
          /\ app = AppBlank /\ cr = CrBlank
          /\ \/ screen = InfoScreen
             \/ Len(screen) = 1 /\ screen[1].kind = "error" /\ screen[1].stage = "input"
    /\ \A key \in DOMAIN stats_cache : Len(key[1]) >= 2

\* C2 witness: two tickers with lower = upper have been rejected.
C2_Witness ==
    /\ Len(sidebar.tickers) >= 2 /\ sidebar.lower_bound = sidebar.upper_bound
    /\ screen # InfoScreen /\ screen[1].kind = "error"

Frontier(i) == slsqp[<<"frontier", i>>]

\* C3: a frontier solve that does not converge leaves NaN at its index, which is
\* no number (zero included), and the chart shows None there; a converged one
\* leaves the minimised objective, shown as a number; calculated_result never
\* raises after a frontier solve.
C3_InfeasiblePointsAreSentinels ==
    /\ \A i \in 1..Len(cr.ef_vols) :
          /\ ~Frontier(i).success => cr.ef_vols[i] = NaN /\ cr.ef_vols[i].kind # "num"
          /\ Frontier(i).success =>
                cr.ef_vols[i] = Frontier(i).fun /\ cr.ef_vols[i].kind = "num"
    /\ (trace # <<>> /\ Last(trace).op = "raise") =>
          \A q \in 1..Len(trace) : trace[q].op # "efficient_frontier"
    /\ app.fig # None =>
          /\ Len(app.fig.ef_curve.x) = N_FRONTIER
          /\ \A i \in 1..N_FRONTIER :
                /\ ~Frontier(i).success => app.fig.ef_curve.x[i] = None
                /\ Frontier(i).success =>
                      app.fig.ef_curve.x[i] =
                          [kind |-> "num", value |-> RoundVol(Frontier(i).fun)]

\* C3 witness: a chart with a missing point and a point of volatility zero.
C3_Witness ==
    /\ app.fig # None
    /\ \E i \in 1..N_FRONTIER : ~Frontier(i).success /\ app.fig.ef_curve.x[i] = None
    /\ \E j \in 1..N_FRONTIER :
          /\ Frontier(j).success /\ Frontier(j).fun.sq = 0
          /\ app.fig.ef_curve.x[j] = [kind |-> "num", value |-> 0]

\* C4 as stated: the target returns are strictly increasing whatever the relation
\* between the Minimum Volatility return and the Maximum Sharpe return. Violated
\* by a call whose Maximum Sharpe return is below its Minimum Volatility return:
\* np.linspace then runs downwards.
C4_StrictlyIncreasing ==
    \A i, j \in 1..Len(cr.target_returns) :
        i < j => cr.target_returns[i] < cr.target_returns[j]

\* The stage an error element of the results area names.
StageNamed(element) ==
    IF element.stage = "Optimization failed" THEN "optimization"
    ELSE IF element.stage = "Statistics load failed" THEN "statistics load"
    ELSE "none"

\* C5 as stated: after any failure the results area holds one message naming the
\* stage that failed, statistics load or optimization, and nothing else.
C5_FailureNamesFailingStage ==
    (pc = "idle" /\ trace # <<>> /\ Last(trace).op = "raise") =>
        /\ Len(screen) = 1 /\ screen[1].kind = "error"
        /\ StageNamed(screen[1]) =
              IF Last(trace).call = "get_data" THEN "statistics load" ELSE "optimization"

\* C6 as stated: negative_sharpe returns +infinity whenever the portfolio's
\* annualised volatility sqrt(252 w'Cw) is zero within the tolerance 1e-8;
\* otherwise it returns -(annualizedReturn - riskFreeRate) / annualizedVolatility;
\* it never divides by zero. Violated by a portfolio of two anti-correlated
\* assets whose variance, exactly zero, is computed as a negative rounding
\* error: its value is nan.
C6_ZeroVolatilityYieldsInfinity ==
    pc = "returned" =>
        LET n        == Len(fn.mean_return)
            variance == QuadForm(fn.weights, fn.covar, n) * TRADING_DAYS
            ret      == SumTo([i \in 1..n |-> fn.mean_return[i] * fn.weights[i]], n)
                            * TRADING_DAYS
            zero     == variance <= (WeightSteps * WeightSteps) \div (AtolInv * AtolInv)
        IN  /\ fn.value.kind # "ZeroDivision"
            /\ zero => fn.value = Inf
            /\ ~zero => fn.value = [kind |-> "num",
                                    num  |-> -(ret - fn.risk_free_rate * WeightSteps),
                                    sq   |-> variance]

\* C7: the weights of every converged outcome of the three solvers sum to 1 and
\* each lies within [lower, upper].
C7_ConvergedWeightsFeasible ==
    \A key \in DOMAIN slsqp :
        slsqp[key].success =>
            /\ SumTo(slsqp[key].x, Len(slsqp[key].x)) = WeightSteps
            /\ \A i \in 1..Len(slsqp[key].x) :
                  /\ sidebar.lower_bound <= slsqp[key].x[i]
                  /\ slsqp[key].x[i] <= sidebar.upper_bound

\* C7 witness: the two named solves and a frontier solve have converged.
C7_Witness ==
    /\ <<"max_sharpe", 0>> \in DOMAIN slsqp /\ slsqp[<<"max_sharpe", 0>>].success
    /\ <<"min_vol", 0>> \in DOMAIN slsqp /\ slsqp[<<"min_vol", 0>>].success
    /\ \E i \in 2..(N_FRONTIER - 1) :
          <<"frontier", i>> \in DOMAIN slsqp /\ Frontier(i).success

Returned(c) == \E p \in 1..Len(trace) : trace[p].op = "return" /\ trace[p].call = c

\* Within one call of calculated_result no solve runs twice, and a call that
\* returns has run each solve exactly once.
EachSolveOnce ==
    LET solves == {p \in 1..Len(trace) : trace[p].op \in SolverOps}
        keys   == {<<trace[p].op, trace[p].call, trace[p].arg>> : p \in solves}
    IN  /\ Cardinality(keys) = Cardinality(solves)
        /\ \A c \in {"app", "ef_graph"} :
              Returned(c) =>
                  /\ <<"max_sharpe_ratio", c, 0>> \in keys
                  /\ <<"min_portfolio_var", c, 0>> \in keys
                  /\ \A i \in 1..N_FRONTIER : <<"efficient_frontier", c, i>> \in keys

NamedFailureAt(p) ==
    trace[p].op \in {"max_sharpe_ratio", "min_portfolio_var"} /\ ~trace[p].success

\* C8 as stated: no solve runs twice within a call, and once a named-portfolio
\* solve has failed no solver is invoked again for that request.
C8_NoSolveAfterFailedSolve ==
    /\ EachSolveOnce
    /\ \A p \in 1..Len(trace) :
          NamedFailureAt(p) => \A q \in (p + 1)..Len(trace) : trace[q].op \notin SolverOps

\* C8 amended: no solve runs twice within a call; once calculated_result has
\* raised, nothing more is invoked for that request; the Minimum Volatility
\* solve runs (once) even when the Maximum Sharpe solve before it has failed,
\* and it is the only solver invocation that follows a failed named solve.
C8_NoRetry ==
    /\ EachSolveOnce
    /\ \A p \in 1..Len(trace) : trace[p].op = "raise" => p = Len(trace)
    /\ \A p \in 1..Len(trace) :
          NamedFailureAt(p) =>
              \A q \in (p + 1)..Len(trace) :
                  trace[q].op \in SolverOps =>
                      /\ trace[p].op = "max_sharpe_ratio"
                      /\ trace[q].op = "min_portfolio_var"
                      /\ q = p + 1

\* C8 witness: the Maximum Sharpe solve failed, the Minimum Volatility solve ran
\* all the same, and calculated_result raised.
C8_Witness ==
    /\ pc = "idle" /\ Len(trace) >= 3
    /\ Last(trace).op = "raise"
    /\ trace[Len(trace) - 2].op = "max_sharpe_ratio" /\ ~trace[Len(trace) - 2].success
    /\ trace[Len(trace) - 1].op = "min_portfolio_var"

\* C9: a call that returns yields exactly 20 target returns, evenly spaced, the
\* first the unrounded Minimum Volatility return and the last the unrounded
\* Maximum Sharpe return, and 20 frontier volatilities, entry i being the outcome
\* of the solve for target i; when the two returns are equal all targets
\* coincide and nothing is raised.
C9_TwentyEvenlySpacedTargets ==
    /\ cr.target_returns # <<>> =>
          LET t      == cr.target_returns
              retMin == portfolio_return(cr.min_vol_result.x, app.stats.mean_return,
                                         app.stats.covar, FALSE)
              retMax == portfolio_return(cr.max_sharpe_result.x, app.stats.mean_return,
                                         app.stats.covar, FALSE)
          IN  /\ Len(t) = 20
              /\ t[1] = 19 * retMin /\ t[20] = 19 * retMax
              /\ \A i \in 1..19 : t[i + 1] - t[i] = retMax - retMin
              /\ retMin = retMax => \A i \in 1..20 : t[i] = t[1]
              /\ Len(cr.ef_vols) <= 20
              /\ pc = "cr_frontier" =>
                    LET solved == {p \in 1..Len(trace) :
                                      /\ trace[p].op = "efficient_frontier"
                                      /\ trace[p].call = caller}
                    IN  /\ Cardinality(solved) = Len(cr.ef_vols)
                        /\ {trace[p].arg : p \in solved} = 1..Len(cr.ef_vols)
              /\ \A i \in 1..Len(cr.ef_vols) :
                    /\ ~Frontier(i).success => cr.ef_vols[i] = NaN
                    /\ Frontier(i).success =>
                          /\ 19 * portfolio_return(Frontier(i).x, app.stats.mean_return,
                                                   app.stats.covar, FALSE) = t[i]
                          /\ \E rounds_negative \in BOOLEAN :
                                cr.ef_vols[i] = portfolio_var(Frontier(i).x,
                                                    app.stats.mean_return,
                                                    app.stats.covar, rounds_negative)
              /\ \A p \in 1..Len(trace) : trace[p].op # "raise"
    /\ app.result # None =>
          /\ Len(app.result.target_returns) = 20
          /\ Len(app.result.ef_vols) = 20
    /\ \A p \in 1..Len(trace) :
          trace[p].op = "efficient_frontier" =>
              \/ trace[p].arg = 1
              \/ /\ trace[p - 1].op = "efficient_frontier"
                 /\ trace[p - 1].call = trace[p].call
                 /\ trace[p - 1].arg = trace[p].arg - 1

\* C9 witness: a call has returned with equal anchor returns, both anchors
\* being the equal-weight portfolio, and all 20 frontier solves converged.
C9_Witness ==
    /\ app.result # None
    /\ cr.minimal # None /\ cr.minimal.port_return = cr.opt.port_return
    /\ cr.min_vol_result.x[1] = cr.min_vol_result.x[2]
    /\ Len(app.result.ef_vols) = 20
    /\ \A i \in 1..20 : app.result.ef_vols[i].kind = "num"

\* The occurrences of ticker symbols in raw: <<i, a, b, j>> where i..j is a
\* maximal comma-free stretch of raw and a..b is what is left of it once the
\* spaces at both ends are dropped.
TickerSpans(raw) ==
    LET stretches ==
            { p \in (1..Len(raw)) \X (1..Len(raw)) :
                /\ p[1] <= p[2]
                /\ p[1] = 1 \/ raw[p[1] - 1] = Comma
                /\ p[2] = Len(raw) \/ raw[p[2] + 1] = Comma
                /\ \A k \in p[1]..p[2] : raw[k] # Comma }
    IN  UNION { { s \in { <<p[1], a, b, p[2]>> : a \in p[1]..p[2], b \in p[1]..p[2] } :
                    /\ s[2] <= s[3]
                    /\ raw[s[2]] # Space /\ raw[s[3]] # Space
                    /\ \A k \in s[1]..s[4] : (k < s[2] \/ k > s[3]) => raw[k] = Space }
              : p \in stretches }

SymbolAt(raw, s) == [k \in 1..(s[3] - s[2] + 1) |-> UpperChar(raw[s[2] + k - 1])]

FirstOccurrence(raw, spans, t) ==
    CHOOSE i \in 1..Len(raw) :
        /\ \E s \in spans : s[1] = i /\ SymbolAt(raw, s) = t
        /\ \A s \in spans : SymbolAt(raw, s) = t => i <= s[1]

\* C10: the ticker list holds the symbols of the comma-separated text, stripped
\* and upper-cased, without the empty ones, each once, in order of first
\* occurrence; an optimization starts only with at least 2 symbols left after
\* deduplication, otherwise the click ends in an input error.
C10_TickerUniverse ==
    LET raw  == sidebar.raw_tickers
        tk   == sidebar.tickers
        spans == TickerSpans(raw)
        syms == {SymbolAt(raw, s) : s \in spans}
    IN  /\ {tk[p] : p \in 1..Len(tk)} = syms
        /\ \A p, q \in 1..Len(tk) : p # q => tk[p] # tk[q]
        /\ \A p \in 1..Len(tk) :
              /\ tk[p] # <<>>
              /\ tk[p][1] # Space /\ tk[p][Len(tk[p])] # Space
              /\ \A k \in 1..Len(tk[p]) : tk[p][k] \notin {"a", "b", Comma}
        /\ \A p, q \in 1..Len(tk) :
              p < q => FirstOccurrence(raw, spans, tk[p]) < FirstOccurrence(raw, spans, tk[q])
        /\ pc = "load" => Len(tk) >= 2 /\ Cardinality(syms) >= 2
        /\ (Cardinality(syms) < 2 /\ screen # InfoScreen) =>
              /\ pc = "idle" /\ trace = <<>> /\ app = AppBlank
              /\ Len(screen) = 1 /\ screen[1].kind = "error" /\ screen[1].stage = "input"

\* C10 witness: a text naming one of its symbols twice, in different spellings
\* and with spaces around, has been accepted with 2 distinct symbols.
C10_Witness ==
    /\ pc = "load"
    /\ Len(sidebar.tickers) = 2
    /\ Cardinality(TickerSpans(sidebar.raw_tickers)) = 3
    /\ \E k \in 1..Len(sidebar.raw_tickers) : sidebar.raw_tickers[k] = "a"

====
